---- MODULE Spec2Model ----
(***************************************************************************)
(* Model of the voxnova translation resolution engine (initI18n and its    *)
(* helpers getOrderedLocaleAndParentLocales, getTranslation, getProperty   *)
(* and performSubstitution).                                               *)
(*                                                                         *)
(* A JavaScript string is a sequence of one-character strings, so that     *)
(* splitting, regular-expression matching and replacement are computed     *)
(* character by character as the engine computes them.                     *)
(*                                                                         *)
(* Scope of the inputs: argument names are made of letters and "." (they   *)
(* are spliced into a regular expression, where "." stands for any         *)
(* character), argument values are strings and natural numbers, and        *)
(* Intl.PluralRules / Intl.NumberFormat are modelled for English and       *)
(* Spanish.  A catalog is an object whose property reads follow the        *)
(* prototype chain to Object and Function, as obj[k] does.                 *)
(***************************************************************************)
EXTENDS Integers, Sequences, FiniteSets, TLC

VARIABLES
  config,          \* the InitI18nConfig given to initI18n
  pc,              \* position inside initI18n / which pure function is applied
  pending,         \* tags whose expansion is still to be computed
  parentLocale,    \* getOrderedLocaleAndParentLocales: let parentLocale
  locales,         \* getOrderedLocaleAndParentLocales: const locales
  flat,            \* the spread array handed to new Set(...)
  orderedLocales,  \* initI18n: const orderedLocales (insertion order of the Set)
  key,             \* t / getProperty: key
  args,            \* t / performSubstitution: args, as Object.entries lists them
  result,          \* what the last call returned or threw
  object,          \* getProperty: object
  string,          \* performSubstitution: string (the template)
  paramOptions,    \* performSubstitution: paramOptions
  locale,          \* the locale parameter of the helper being applied
  property         \* getProperty: what it returned

vars == <<config, pc, pending, parentLocale, locales, flat, orderedLocales,
          key, args, result, object, string, paramOptions, locale, property>>

chainVars == <<pending, parentLocale, locales, flat, orderedLocales>>
callVars == <<key, args, result, object, string, paramOptions, locale, property>>

(***************************************************************************)
(* Bounds of the model.                                                    *)
(***************************************************************************)
\* longest fallback array drawn for the chain builder
MaxFallbacks == 2
\* iterations of the expansion loop that are followed before the model stops
MaxIter == 5
\* largest number passed as an argument value
MaxNumber == 3

(***************************************************************************)
(* Strings.                                                                *)
(***************************************************************************)
\* String.prototype.toLowerCase on one character (the letters the inputs use)
LowerChar(c) ==
  CASE c = "E" -> "e"
    [] c = "N" -> "n"
    [] c = "U" -> "u"
    [] c = "S" -> "s"
    [] c = "M" -> "m"
    [] c = "X" -> "x"
    [] OTHER -> c

ToLowerCase(s) == [i \in 1..Len(s) |-> LowerChar(s[i])]

\* s.startsWith(p, i): p occurs in s at (1-based) position i
OccursAt(s, p, i) ==
  /\ i >= 1
  /\ i + Len(p) - 1 <= Len(s)
  /\ \A j \in 1..Len(p) : s[i + j - 1] = p[j]

\* s.indexOf(p), 1-based; 0 when p does not occur
IndexOf(s, p) ==
  LET hits == {i \in 1..(Len(s) + 1) : OccursAt(s, p, i)}
  IN  IF hits = {} THEN 0 ELSE CHOOSE i \in hits : \A j \in hits : i <= j

Prefix(s, n) == SubSeq(s, 1, n)
Suffix(s, n) == SubSeq(s, n, Len(s))

(***************************************************************************)
(* Locale chain builder.                                                   *)
(***************************************************************************)
\* position at which /-?[^-]+$/ matches s (the leftmost one), 0 when it does not
ParentMatch(s) ==
  LET tailOk(i) == i <= Len(s) /\ \A j \in i..Len(s) : s[j] # "-"
      hits == {i \in 1..Len(s) :
                 \/ s[i] = "-" /\ tailOk(i + 1)
                 \/ s[i] # "-" /\ tailOk(i)}
  IN  IF hits = {} THEN 0 ELSE CHOOSE i \in hits : \A j \in hits : i <= j

\* parentLocale.replace(/-?[^-]+$/, "")
StripParent(s) ==
  IF ParentMatch(s) = 0 THEN s ELSE Prefix(s, ParentMatch(s) - 1)

\* a plausible slip: a later duplicate displaces the earlier entry
RECURSIVE KeepLast(_)
KeepLast(a) ==
  IF a = <<>> THEN <<>>
  ELSE IF \E j \in 2..Len(a) : a[j] = a[1]
       THEN KeepLast(Tail(a))
       ELSE <<a[1]>> \o KeepLast(Tail(a))

\* new Set([...]) : insertion order, first occurrence kept
RECURSIVE NewSet(_)
NewSet(a) ==
  IF a = <<>> THEN <<>>
  ELSE LET init == NewSet(Prefix(a, Len(a) - 1))
           last == a[Len(a)]
       IN  IF \E j \in 1..Len(init) : init[j] = last
           THEN init
           ELSE Append(init, last)

\* Array.isArray(config.fallback) ? config.fallback : [config.fallback]
fallbackLocales(cfg) ==
  IF cfg.fallback.isArray THEN cfg.fallback.tags ELSE <<cfg.fallback.tags[1]>>

(***************************************************************************)
(* JavaScript values: catalog nodes, argument values, call results.        *)
(***************************************************************************)
NoFields == <<>>
NoPlural == <<>>
NoNumber == <<>>

\* paramOptions of a bare string: [newObject, null]
NullOptions == [isNull |-> TRUE, plural |-> NoPlural, number |-> NoNumber]
\* the second element of a dt(...) pair with a plural block, which maps a
\* parameter name to its PluralOptions
Options(plural) == [isNull |-> FALSE, plural |-> plural, number |-> NoNumber]
\* the second element of a dt(...) pair with a number block, which maps a
\* parameter name to its Intl.NumberFormatOptions
NumberOptions(number) == [isNull |-> FALSE, plural |-> NoPlural, number |-> number]

\* PluralOptions: the declared category texts, type and formatter
PluralOptions(forms, type, formatter) ==
  [forms |-> forms, type |-> type, formatter |-> formatter]

UndefinedNode == [tag |-> "undefined", s |-> <<>>, opts |-> NullOptions, fields |-> NoFields]
\* a bare string message
Str(s) == [tag |-> "string", s |-> s, opts |-> NullOptions, fields |-> NoFields]
\* dt(string, options): the pair [string, options]
dt(s, options) == [tag |-> "array", s |-> s, opts |-> options, fields |-> NoFields]
\* an object literal: a nested catalog, or config.translations
Obj(fields) == [tag |-> "object", s |-> <<>>, opts |-> NullOptions, fields |-> fields]

\* the function objects every object reaches through its prototype chain
ObjectConstructor ==
  [tag |-> "function", s |-> <<>>, opts |-> NullOptions,
   fields |-> (<<"n","a","m","e">> :> Str(<<"O","b","j","e","c","t">>))]
FunctionConstructor ==
  [tag |-> "function", s |-> <<>>, opts |-> NullOptions,
   fields |-> (<<"n","a","m","e">> :> Str(<<"F","u","n","c","t","i","o","n">>))]

\* obj[k]: an own property, else the one inherited from the prototype
Get(node, k) ==
  IF k \in DOMAIN node.fields THEN node.fields[k]
  ELSE IF k = <<"c","o","n","s","t","r","u","c","t","o","r">> /\ node.tag = "object" THEN ObjectConstructor
  ELSE IF k = <<"c","o","n","s","t","r","u","c","t","o","r">> /\ node.tag = "function" THEN FunctionConstructor
  ELSE UndefinedNode

\* !x for a node: undefined and the empty string are falsy
Falsy(node) ==
  \/ node.tag = "undefined"
  \/ node.tag = "string" /\ node.s = <<>>

\* argument values
StringValue(s) == [type |-> "string", s |-> s, n |-> 0]
NumberValue(n) == [type |-> "number", s |-> <<>>, n |-> n]

\* one entry of Object.entries(args)
Entry(name, value) == [name |-> name, value |-> value]

\* what a call produced; message is the text of the Error thrown
Returned(s) == [kind |-> "string", value |-> s, message |-> <<>>]
Threw(message) == [kind |-> "throw", value |-> <<>>, message |-> message]
ReturnedUndefined == [kind |-> "undefined", value |-> <<>>, message |-> <<>>]
NoResult == [kind |-> "none", value |-> <<>>, message |-> <<>>]

(***************************************************************************)
(* Catalog lookup.                                                         *)
(***************************************************************************)
\* key.split(".")
RECURSIVE Split(_, _)
Split(s, sep) ==
  LET hits == {i \in 1..Len(s) : s[i] = sep}
  IN  IF hits = {} THEN <<s>>
      ELSE LET i == CHOOSE h \in hits : \A j \in hits : h <= j
           IN  <<Prefix(s, i - 1)>> \o Split(Suffix(s, i + 1), sep)

\* the for loop of getProperty from index i (1-based) with current obj
RECURSIVE getPropertyLoop(_, _, _)
getPropertyLoop(obj, keys, i) ==
  IF i > Len(keys) THEN UndefinedNode
  ELSE LET k == keys[i]
           newObject == Get(obj, k)
       IN  IF k = <<>> THEN getPropertyLoop(obj, keys, i + 1)
           ELSE IF Falsy(newObject) THEN UndefinedNode
           ELSE IF newObject.tag = "string" \/ newObject.tag = "array"
                THEN IF i # Len(keys) THEN UndefinedNode
                     ELSE dt(newObject.s, newObject.opts)
           ELSE getPropertyLoop(newObject, keys, i + 1)

\* getProperty(object, key): the [template, options] pair, or undefined
getProperty(obj, k) == getPropertyLoop(obj, Split(k, "."), 1)

(***************************************************************************)
(* Placeholder substitution.                                               *)
(***************************************************************************)
\* the regular expression made of the characters of p matches s at i: a "."
\* of p matches any character but a line terminator, a letter or "{" itself
PatternAt(s, p, i) ==
  /\ i >= 1
  /\ i + Len(p) - 1 <= Len(s)
  /\ \A j \in 1..Len(p) :
        IF p[j] = "." THEN s[i + j - 1] \notin {"\n", "\r"} ELSE s[i + j - 1] = p[j]

\* result.match(`{${argName}(?::([^}]+))?}`), argName made of letters and ".":
\* the leftmost "{argName}" or "{argName:type}" with argName read as a regular
\* expression and type one or more characters other than "}".  pos = 0 stands
\* for null.
Match(s, argName) ==
  LET open == <<"{">> \o argName
      after(i) == i + Len(open)
      untyped(i) == after(i) <= Len(s) /\ s[after(i)] = "}"
      closes(i) == {k \in (after(i) + 2)..Len(s) :
                      /\ s[k] = "}"
                      /\ \A j \in (after(i) + 1)..(k - 1) : s[j] # "}"}
      typed(i) == after(i) <= Len(s) /\ s[after(i)] = ":" /\ closes(i) # {}
      hits == {i \in 1..Len(s) : PatternAt(s, open, i) /\ (untyped(i) \/ typed(i))}
  IN  IF hits = {} THEN [pos |-> 0, len |-> 0, typed |-> FALSE, type |-> <<>>]
      ELSE LET i == CHOOSE h \in hits : \A j \in hits : h <= j
           IN  IF untyped(i)
               THEN [pos |-> i, len |-> Len(open) + 1, typed |-> FALSE, type |-> <<>>]
               ELSE LET k == CHOOSE c \in closes(i) : TRUE
                    IN  [pos |-> i, len |-> k - i + 1, typed |-> TRUE,
                         type |-> SubSeq(s, after(i) + 1, k - 1)]

\* the grave accent character (a string literal cannot hold it alone)
Backtick == SubSeq("`'", 1, 1)

\* GetSubstitution for a string pattern (no capture groups): in the replacement
\* text $$ is "$", $& the matched text, $` what precedes it, $' what follows it
RECURSIVE GetSubstitution(_, _, _, _)
GetSubstitution(repl, matched, before, after) ==
  IF repl = <<>> THEN <<>>
  ELSE IF repl[1] = "$" /\ Len(repl) >= 2 /\ repl[2] \in {"$", "&", Backtick, "'"}
       THEN (CASE repl[2] = "$" -> <<"$">>
               [] repl[2] = "&" -> matched
               [] repl[2] = Backtick -> before
               [] repl[2] = "'" -> after)
            \o GetSubstitution(Suffix(repl, 3), matched, before, after)
       ELSE <<repl[1]>> \o GetSubstitution(Tail(repl), matched, before, after)

\* s.replace(pattern, replacement) with a string pattern: the first occurrence only
Replace(s, pattern, replacement) ==
  LET i == IndexOf(s, pattern)
  IN  IF i = 0 THEN s
      ELSE LET before == Prefix(s, i - 1)
               after == Suffix(s, i + Len(pattern))
           IN  before \o GetSubstitution(replacement, pattern, before, after) \o after

\* s.replaceAll(pattern, replacement) with a non-empty string pattern; done is
\* the part of s already scanned
RECURSIVE ReplaceAllFrom(_, _, _, _)
ReplaceAllFrom(s, done, pattern, replacement) ==
  LET from == done + 1
      rest == Suffix(s, from)
      i == IndexOf(rest, pattern)
  IN  IF i = 0 THEN rest
      ELSE Prefix(rest, i - 1)
           \o GetSubstitution(replacement, pattern,
                              Prefix(s, done + i - 1),
                              Suffix(s, done + i + Len(pattern)))
           \o ReplaceAllFrom(s, done + i + Len(pattern) - 1, pattern, replacement)

ReplaceAll(s, pattern, replacement) == ReplaceAllFrom(s, 0, pattern, replacement)

\* the decimal digits of a natural number
RECURSIVE Digits(_)
Digits(n) ==
  LET d == <<"0", "1", "2", "3", "4", "5", "6", "7", "8", "9">>
  IN  IF n < 10 THEN <<d[n + 1]>> ELSE Digits(n \div 10) \o <<d[(n % 10) + 1]>>

\* String(argValue)
String(value) == IF value.type = "number" THEN Digits(value.n) ELSE value.s

\* the language subtag of a locale tag
Language(loc) == Split(loc, "-")[1]

\* new Intl.PluralRules(locale, {type}).select(n) for a natural n, with the CLDR
\* rules of English and Spanish (type undefined is cardinal)
PluralSelect(loc, type, n) ==
  IF type = "ordinal"
  THEN IF Language(loc) = <<"e","n">>
       THEN (CASE n % 10 = 1 /\ n % 100 # 11 -> "one"
               [] n % 10 = 2 /\ n % 100 # 12 -> "two"
               [] n % 10 = 3 /\ n % 100 # 13 -> "few"
               [] OTHER -> "other")
       ELSE "other"
  ELSE IF n = 1 THEN "one"
       ELSE IF Language(loc) = <<"e","s">> /\ n # 0 /\ n % 1000000 = 0 THEN "many"
       ELSE "other"

\* new Intl.NumberFormat(locale, formatter).format(n) for a natural n < 1000
\* (no grouping separator), formatter undefined or {minimumIntegerDigits: 2}
NumberFormat(loc, formatter, n) ==
  IF formatter = "minimumIntegerDigits2" /\ n < 10
  THEN <<"0">> \o Digits(n)
  ELSE Digits(n)

\* pluralOptions[pluralRules.select(argValue)] ?? pluralOptions.other
PluralText(pluralOptions, category) ==
  IF category \in DOMAIN pluralOptions.forms
  THEN pluralOptions.forms[category]
  ELSE pluralOptions.forms["other"]

\* (paramOptions)?.plural?.[argName] is undefined
NoPluralOptions(opts, argName) ==
  opts.isNull \/ argName \notin DOMAIN opts.plural

\* the reducer of performSubstitution: one entry of Object.entries(args)
SubstituteEntry(acc, entry, opts, loc) ==
  IF acc.kind # "string" THEN acc
  ELSE
    LET res == acc.value
        match == Match(res, entry.name)
        replaceKey == IF match.pos # 0
                      THEN SubSeq(res, match.pos, match.pos + match.len - 1)
                      ELSE <<"{">> \o entry.name \o <<"}">>
        isPlural == match.pos # 0 /\ match.typed
                    /\ match.type = <<"p","l","u","r","a","l">>
    IN  IF isPlural
        THEN IF entry.value.type # "number"
             THEN Threw(<<"I","n","v","a","l","i","d"," ","a","r","g","u","m","e","n","t"," ","t","y","p","e">>)
             ELSE IF NoPluralOptions(opts, entry.name)
             THEN Threw(<<"P","l","u","r","a","l"," ","o","p","t","i","o","n","s"," ","m","u","s","t"," ","b","e"," ","d","e","f","i","n","e","d">>)
             ELSE LET pluralOptions == opts.plural[entry.name]
                      replacement ==
                        PluralText(pluralOptions,
                                   PluralSelect(loc, pluralOptions.type, entry.value.n))
                  IN  Returned(Replace(res, replaceKey,
                        ReplaceAll(replacement, <<"{","?","}">>,
                          NumberFormat(loc, pluralOptions.formatter, entry.value.n))))
        ELSE Returned(Replace(res, replaceKey, String(entry.value)))

\* a reduction that does not carry the accumulated string on: every entry is
\* applied to the template and the last one's output is the result
RECURSIVE ReduceDroppingResult(_, _, _, _, _)
ReduceDroppingResult(acc, entries, i, opts, loc) ==
  IF i > Len(entries) THEN acc
  ELSE IF i = Len(entries) THEN SubstituteEntry(acc, entries[i], opts, loc)
  ELSE ReduceDroppingResult(acc, entries, i + 1, opts, loc)

\* Object.entries(args).reduce(..., string) over the entries from index i
RECURSIVE Reduce(_, _, _, _, _)
Reduce(acc, entries, i, opts, loc) ==
  IF i > Len(entries) THEN acc
  ELSE Reduce(SubstituteEntry(acc, entries[i], opts, loc), entries, i + 1, opts, loc)

\* performSubstitution(string, paramOptions, args, locale)
performSubstitution(str, opts, entries, loc) ==
  Reduce(Returned(str), entries, 1, opts, loc)

\* getTranslation(object, key, args, locale)
getTranslation(obj, k, entries, loc) ==
  LET prop == getProperty(obj, k)
  IN  IF Falsy(prop) THEN ReturnedUndefined
      ELSE performSubstitution(prop.s, prop.opts, entries, loc)

\* the for loop of t over the chain, from its i-th locale
RECURSIVE tLoop(_, _, _, _, _)
tLoop(translations, chain, i, k, entries) ==
  IF i > Len(chain) THEN Returned(k)
  ELSE LET translationObject == Get(translations, chain[i])
           translation == getTranslation(translationObject, k, entries, chain[i])
       IN  IF Falsy(translationObject) THEN tLoop(translations, chain, i + 1, k, entries)
           ELSE IF translation.kind = "throw" THEN translation
           ELSE IF translation.kind = "undefined" \/ translation.value = <<>>
                THEN tLoop(translations, chain, i + 1, k, entries)
           ELSE translation

\* t(key, args) of the engine built from cfg with the chain `chain`
t(cfg, chain, k, entries) == tLoop(cfg.translations, chain, 1, k, entries)

(***************************************************************************)
(* Inputs: locale tags, catalogs, keys and arguments.                      *)
(***************************************************************************)
\* locale tags given as config.locale and config.fallback to the chain builder
TagInputs ==
  { <<>>, <<"e","n">>, <<"e","s">>, <<"e","n","-","U","S">>, <<"E","N","-","u","s">>, <<"e","s","-","M","X">>, <<"p","t","-","b","r","-","x">>,
    <<"-","e","n">>, <<"e","n","-">>, <<"e","n","-","-","u","s">> }

RECURSIVE SeqsUpTo(_, _)
SeqsUpTo(S, n) ==
  IF n = 0 THEN {<<>>}
  ELSE LET shorter == SeqsUpTo(S, n - 1)
       IN  shorter \cup {Append(q, x) : q \in {r \in shorter : Len(r) = n - 1}, x \in S}

\* config.fallback: one tag, or an array of tags
Single(tag) == [isArray |-> FALSE, tags |-> <<tag>>]
Array(tags) == [isArray |-> TRUE, tags |-> tags]

\* the plural rule sets of the catalogs
MessagesEn ==
  PluralOptions("one" :> <<"1"," ","m","e","s","s","a","g","e">> @@ "other" :> <<"{","?","}"," ","m","e","s","s","a","g","e","s">>,
                "undefined", "undefined")
MessagesEs ==
  PluralOptions("one" :> <<"1"," ","m","e","n","s","a","j","e">> @@ "other" :> <<"{","?","}"," ","m","e","n","s","a","j","e","s">>,
                "undefined", "undefined")
PlaceEn ==
  PluralOptions("one" :> <<"{","?","}","s","t">> @@ "two" :> <<"{","?","}","n","d">> @@ "other" :> <<"{","?","}","t","h">>,
                "ordinal", "minimumIntegerDigits2")
CostEn ==
  PluralOptions("zero" :> <<"f","r","e","e">> @@ "other" :> <<"{","?","}"," ","f","o","r"," ","$","$","5">>,
                "cardinal", "undefined")
BlankEn ==
  PluralOptions("one" :> <<>> @@ "other" :> <<"{","?","}","{","?","}">>, "cardinal", "undefined")

\* test/en.ts
En ==
  Obj(<<"s","i","m","p","l","e">> :> Str(<<"S","i","m","p","l","e"," ","m","e","s","s","a","g","e">>)
   @@ <<"c","o","m","p","l","e","x">> :> Obj(<<"m","e","s","s","a","g","e">> :> Str(<<"C","o","m","p","l","e","x"," ","m","e","s","s","a","g","e">>))
   @@ <<"v","a","r","i","a","b","l","e">> :> Str(<<"H","e","l","l","o",","," ","{","n","a","m","e","}","!">>)
   @@ <<"p","l","u","r","a","l">> :> dt(<<"Y","o","u"," ","h","a","v","e"," ","{","m","e","s","s","a","g","e","s",":","p","l","u","r","a","l","}">>,
                       Options(<<"m","e","s","s","a","g","e","s">> :> MessagesEn))
   @@ <<"n","u","m","b","e","r">> :> dt(<<"T","h","e"," ","c","o","s","t"," ","o","f"," ","t","h","i","s"," ","i","s"," ","{","p","r","i","c","e",":","n","u","m","b","e","r","}">>, NumberOptions(<<"p","r","i","c","e">> :> "currencyUSD")))

\* test/es.ts
Es ==
  Obj(<<"s","i","m","p","l","e">> :> Str(<<"M","e","n","s","a","j","e"," ","s","i","m","p","l","e">>)
   @@ <<"c","o","m","p","l","e","x">> :> Obj(<<"m","e","s","s","a","g","e">> :> Str(<<"M","e","n","s","a","j","e"," ","c","o","m","p","l","e","j","o">>))
   @@ <<"v","a","r","i","a","b","l","e">> :> Str(<<"H","o","l","a",","," ","{","n","a","m","e","}","!">>)
   @@ <<"p","l","u","r","a","l">> :> dt(<<"T","i","e","n","e","s"," ","{","m","e","s","s","a","g","e","s",":","p","l","u","r","a","l","}">>,
                       Options(<<"m","e","s","s","a","g","e","s">> :> MessagesEs))
   @@ <<"n","u","m","b","e","r">> :> dt(<<"E","l"," ","p","r","e","c","i","o"," ","d","e"," ","e","s","t","o"," ","e","s"," ","{","p","r","i","c","e",":","n","u","m","b","e","r","}">>, NumberOptions(<<"p","r","i","c","e">> :> "currencyEUR")))

\* an English catalog with gaps, an empty message and a message that is only
\* a placeholder
EnPartial ==
  Obj(<<"c","o","m","p","l","e","x">> :> Obj(<<"m","e","s","s","a","g","e">> :> Str(<<"C","o","m","p","l","e","x"," ","m","e","s","s","a","g","e">>))
   @@ <<"s","i","m","p","l","e">> :> Str(<<>>)
   @@ <<"v","a","r","i","a","b","l","e">> :> Str(<<"{","n","a","m","e","}">>)
   @@ <<"p","l","u","r","a","l">> :> dt(<<"{","m","e","s","s","a","g","e","s",":","p","l","u","r","a","l","}">>, NullOptions))

\* a regional catalog holding one message
EnUs == Obj(<<"s","i","m","p","l","e">> :> Str(<<"S","i","m","p","l","e"," ","m","e","s","s","a","g","e"," ","(","U","S",")">>))

\* config.translations
Registries ==
  { Obj(<<"e","n">> :> En @@ <<"e","s">> :> Es),
    Obj(<<"e","n">> :> EnPartial @@ <<"e","s">> :> Es),
    Obj(<<"e","n","-","u","s">> :> EnUs @@ <<"e","s">> :> Es),
    Obj(<<"e","n","-","U","S">> :> EnUs @@ <<"e","s">> :> Es),
    Obj(<<"e","s">> :> Es) }

\* the configurations the engine is built from
EngineConfigs ==
  [locale : {<<"e","n">>, <<"e","s">>, <<"e","n","-","U","S">>},
   fallback : {Single(<<"e","n">>), Single(<<"e","s">>), Array(<<<<"e","s">>, <<"e","n">>>>), Array(<<>>)},
   translations : Registries]

\* the configurations the chain builder is run on
ChainConfigs ==
  [locale : TagInputs,
   fallback : {Single(tag) : tag \in TagInputs}
              \cup {Array(tags) : tags \in SeqsUpTo(TagInputs, MaxFallbacks)},
   translations : {Obj(<<"e","n">> :> En @@ <<"e","s">> :> Es)}]

\* keys given to t and to getProperty
Keys ==
  { <<"s","i","m","p","l","e">>, <<"c","o","m","p","l","e","x",".","m","e","s","s","a","g","e">>, <<"v","a","r","i","a","b","l","e">>, <<"p","l","u","r","a","l">>, <<"n","u","m","b","e","r">>,
    <<"m","i","s","s","i","n","g">>, <<"c","o","m","p","l","e","x">>, <<"c","o","m","p","l","e","x",".","m","i","s","s","i","n","g">>, <<"s","i","m","p","l","e",".","m","e","s","s","a","g","e">>,
    <<"p","l","u","r","a","l",".","m","e","s","s","a","g","e">>, <<>>, <<".","s","i","m","p","l","e">>, <<"s","i","m","p","l","e",".">>, <<"c","o","m","p","l","e","x",".",".","m","e","s","s","a","g","e">>,
    <<"c","o","m","p","l","e","x",".","m","e","s","s","a","g","e",".">>, <<"c","o","n","s","t","r","u","c","t","o","r">>, <<"c","o","n","s","t","r","u","c","t","o","r",".","n","a","m","e">> }

\* the numbers given as argument values
Numbers == 0..MaxNumber

\* args, as Object.entries(args) lists them
ArgSets ==
  { <<>> }
  \cup {<<Entry(<<"n","a","m","e">>, StringValue(s))>> :
          s \in {<<"J","o","h","n">>, <<>>, <<"$","&">>, <<"$","$">>, <<"{","n","a","m","e","}">>}}
  \cup {<<Entry(<<"m","e","s","s","a","g","e","s">>, NumberValue(n))>> : n \in Numbers}
  \cup {<<Entry(<<"p","r","i","c","e">>, NumberValue(n))>> : n \in Numbers}
  \cup {<<Entry(<<"m","e","s","s","a","g","e","s">>, StringValue(<<"2">>))>>,
        <<Entry(<<"o","t","h","e","r">>, StringValue(<<"J","o","h","n">>))>>,
        <<Entry(<<"n",".","m","e">>, StringValue(<<"A","n","n","a">>))>>,
        <<Entry(<<"n","a","m","e">>, StringValue(<<"{","m","e","s","s","a","g","e","s","}">>)), Entry(<<"m","e","s","s","a","g","e","s">>, NumberValue(1))>>,
        <<Entry(<<"n","a","m","e">>, StringValue(<<"J","o","h","n">>)), Entry(<<"m","e","s","s","a","g","e","s">>, NumberValue(1))>>,
        <<Entry(<<"n","a","m","e">>, StringValue(<<"$","'">>)), Entry(<<"m","e","s","s","a","g","e","s">>, NumberValue(1))>>,
        <<Entry(<<"n","a","m","e">>, StringValue(<<>>)), Entry(<<"m","e","s","s","a","g","e","s">>, NumberValue(1))>>,
        <<Entry(<<"n",".","m","e">>, StringValue(<<"A","n","n","a">>)), Entry(<<"n","a","m","e">>, StringValue(<<"J","o","h","n">>))>>,
        <<Entry(<<"m","e","s","s","a","g","e","s">>, NumberValue(1)), Entry(<<"n","a","m","e">>, StringValue(<<"J","o","h","n">>))>>}

\* catalogs given to getProperty
Catalogs == {En, Es, EnPartial, EnUs, Obj(NoFields)}

\* templates and their paramOptions given to performSubstitution
Messages ==
  { Str(<<"S","i","m","p","l","e"," ","m","e","s","s","a","g","e">>), Str(<<>>), Str(<<"H","e","l","l","o",","," ","{","n","a","m","e","}","!">>), Str(<<"{","n","a","m","e","}">>),
    Str(<<"{","n","a","m","e","}"," ","a","n","d"," ","{","n","a","m","e","}">>), Str(<<"{","n","a","m","e","}"," ","h","a","s"," ","{","m","e","s","s","a","g","e","s","}">>),
    Str(<<"{","n","a","m","e",":","p","l","u","r","a","l","}">>), Str(<<"{","p","r","i","c","e",":","n","u","m","b","e","r","}">>),
    Str(<<"{","{","n","a","m","e","}","m","e","s","s","a","g","e","s","}">>),
    Str(<<"S","o","l","d"," ","f","o","r"," ","{","n","a","m","e",":","n","u","m","b","e","r","}">>), Str(<<"B","o","u","g","h","t"," ","o","n"," ","{","n","a","m","e",":","d","a","t","e","}">>),
    dt(<<"T","h","e"," ","c","o","s","t"," ","o","f"," ","t","h","i","s"," ","i","s"," ","{","p","r","i","c","e",":","n","u","m","b","e","r","}">>, NumberOptions(<<"p","r","i","c","e">> :> "currencyUSD")),
    dt(<<"Y","o","u"," ","h","a","v","e"," ","{","m","e","s","s","a","g","e","s",":","p","l","u","r","a","l","}">>, Options(<<"m","e","s","s","a","g","e","s">> :> MessagesEn)),
    dt(<<"T","i","e","n","e","s"," ","{","m","e","s","s","a","g","e","s",":","p","l","u","r","a","l","}">>, Options(<<"m","e","s","s","a","g","e","s">> :> MessagesEs)),
    dt(<<"Y","o","u"," ","c","a","m","e"," ","{","m","e","s","s","a","g","e","s",":","p","l","u","r","a","l","}">>, Options(<<"m","e","s","s","a","g","e","s">> :> PlaceEn)),
    dt(<<"I","t"," ","i","s"," ","{","m","e","s","s","a","g","e","s",":","p","l","u","r","a","l","}">>, Options(<<"m","e","s","s","a","g","e","s">> :> CostEn)),
    dt(<<"[","{","m","e","s","s","a","g","e","s",":","p","l","u","r","a","l","}","]">>, Options(<<"m","e","s","s","a","g","e","s">> :> BlankEn)),
    dt(<<"{","m","e","s","s","a","g","e","s",":","p","l","u","r","a","l","}"," ","o","r"," ","{","m","e","s","s","a","g","e","s",":","p","l","u","r","a","l","}">>, Options(<<"m","e","s","s","a","g","e","s">> :> MessagesEn)),
    dt(<<"{","m","e","s","s","a","g","e","s","}"," ","o","f"," ","{","m","e","s","s","a","g","e","s",":","p","l","u","r","a","l","}">>, Options(<<"m","e","s","s","a","g","e","s">> :> MessagesEn)),
    dt(<<"{","n","a","m","e",":","p","l","u","r","a","l","}">>, Options(<<"m","e","s","s","a","g","e","s">> :> MessagesEn)) }

\* locales handed to performSubstitution
Locales == {<<"e","n">>, <<"e","s">>, <<"e","n","-","u","s">>}

(***************************************************************************)
(* The engine: initI18n builds the chain, then t is called.                *)
(***************************************************************************)
NoCall ==
  /\ key = <<>>
  /\ args = <<>>
  /\ result = NoResult
  /\ object = UndefinedNode
  /\ string = <<>>
  /\ paramOptions = NullOptions
  /\ locale = <<>>
  /\ property = UndefinedNode

\* initI18n entered with cfg: the primary tag first, then the fallbacks
Enter(cfg) ==
  /\ config = cfg
  /\ pc = "expand"
  /\ pending = <<cfg.locale>> \o fallbackLocales(cfg)
  /\ parentLocale = <<>>
  /\ locales = <<>>
  /\ flat = <<>>
  /\ orderedLocales = <<>>
  /\ NoCall

Init == \E cfg \in EngineConfigs : Enter(cfg)

ChainInit == \E cfg \in ChainConfigs : Enter(cfg)

\* getOrderedLocaleAndParentLocales(tag.toLowerCase()) is entered
BeginExpand ==
  /\ pc = "expand"
  /\ pending # <<>>
  /\ locale' = ToLowerCase(Head(pending))
  /\ parentLocale' = locale'
  /\ locales' = <<>>
  /\ pending' = Tail(pending)
  /\ pc' = "loop"
  /\ UNCHANGED <<config, flat, orderedLocales, key, args, result, object, string,
                 paramOptions, property>>

\* one iteration of while (parentLocale !== "")
LoopStep ==
  /\ pc = "loop"
  /\ parentLocale # <<>>
  /\ Len(locales) < MaxIter
  /\ locales' = Append(locales, parentLocale)
  /\ parentLocale' = StripParent(parentLocale)
  /\ UNCHANGED <<config, pc, pending, flat, orderedLocales, callVars>>

\* the loop ends and the expansion is spread into the array
LoopExit ==
  /\ pc = "loop"
  /\ parentLocale = <<>>
  /\ flat' = flat \o locales
  /\ pc' = "expand"
  /\ UNCHANGED <<config, pending, parentLocale, locales, orderedLocales, callVars>>

\* const orderedLocales = new Set([...]); initI18n returns t
BuildSet ==
  /\ pc = "expand"
  /\ pending = <<>>
  /\ orderedLocales' = NewSet(flat)
  /\ pc' = "ready"
  /\ UNCHANGED <<config, pending, parentLocale, locales, flat, callVars>>

\* a call t(k, entries) runs to its return or throw
Translate(k, entries) ==
  /\ pc = "ready"
  /\ key' = k
  /\ args' = entries
  /\ result' = t(config, orderedLocales, k, entries)
  /\ pc' = "returned"
  /\ UNCHANGED <<config, chainVars, object, string, paramOptions, locale, property>>

\* the caller has taken the result; t keeps nothing between calls
Resume ==
  /\ pc = "returned"
  /\ key' = <<>>
  /\ args' = <<>>
  /\ result' = NoResult
  /\ pc' = "ready"
  /\ UNCHANGED <<config, chainVars, object, string, paramOptions, locale, property>>

ChainNext == BeginExpand \/ LoopStep \/ LoopExit \/ BuildSet

Next ==
  \/ ChainNext
  \/ \E k \in Keys, entries \in ArgSets : Translate(k, entries)
  \/ Resume

Spec == Init /\ [][Next]_vars

ChainSpec == ChainInit /\ [][ChainNext]_vars

(***************************************************************************)
(* getProperty and performSubstitution applied to drawn inputs.            *)
(***************************************************************************)
Idle ==
  /\ config = [locale |-> <<>>, fallback |-> Array(<<>>), translations |-> Obj(NoFields)]
  /\ pending = <<>>
  /\ parentLocale = <<>>
  /\ locales = <<>>
  /\ flat = <<>>
  /\ orderedLocales = <<>>

LookupInit ==
  /\ Idle
  /\ pc = "lookup"
  /\ object \in Catalogs
  /\ key \in Keys
  /\ args = <<>>
  /\ result = NoResult
  /\ string = <<>>
  /\ paramOptions = NullOptions
  /\ locale = <<>>
  /\ property = UndefinedNode

Lookup ==
  /\ pc = "lookup"
  /\ property' = getProperty(object, key)
  /\ pc' = "looked"
  /\ UNCHANGED <<config, chainVars, key, args, result, object, string, paramOptions, locale>>

LookupSpec == LookupInit /\ [][Lookup]_vars

SubstInit ==
  /\ Idle
  /\ pc = "subst"
  /\ \E m \in Messages : string = m.s /\ paramOptions = m.opts
  /\ args \in ArgSets
  /\ locale \in Locales
  /\ key = <<>>
  /\ result = NoResult
  /\ object = UndefinedNode
  /\ property = UndefinedNode

Substitute ==
  /\ pc = "subst"
  /\ result' = performSubstitution(string, paramOptions, args, locale)
  /\ pc' = "substituted"
  /\ UNCHANGED <<config, chainVars, key, args, object, string, paramOptions, locale, property>>

SubstSpec == SubstInit /\ [][Substitute]_vars

(***************************************************************************)
(* Properties of the locale chain (checked under ChainSpec).               *)
(***************************************************************************)
\* the lengths of tag and of its ancestors: tag cut before each of its "-"
CutLengths(tag) ==
  {i - 1 : i \in {j \in 2..Len(tag) : tag[j] = "-"}}
  \cup (IF tag = <<>> THEN {} ELSE {Len(tag)})

\* tag followed by its ancestors, from the most to the least specific
Ancestry(tag) ==
  LET cuts == CutLengths(tag)
  IN  [k \in 1..Cardinality(cuts) |->
         Prefix(tag, CHOOSE c \in cuts : Cardinality({d \in cuts : d > c}) = k - 1)]

Range(q) == {q[i] : i \in 1..Len(q)}

\* the lowercased inputs of the chain: the primary tag is input 0, the k-th
\* fallback is input k
ChainInput(k) ==
  IF k = 0 THEN ToLowerCase(config.locale)
  ELSE ToLowerCase(fallbackLocales(config)[k])

\* the first input whose ancestry holds tag
Source(tag) ==
  LET holders == {k \in 0..Len(fallbackLocales(config)) : tag \in Range(Ancestry(ChainInput(k)))}
  IN  CHOOSE k \in holders : \A j \in holders : k <= j

\* C6: the chain built at construction holds no tag twice, starts with the
\* primary tag followed by its ancestors from the most to the least specific,
\* holds every ancestor of every fallback, and orders its tags by the input
\* that first contributes them (primary, then the fallbacks in the order
\* given), each contribution from the most to the least specific
C6_ChainOrderedAndDeduplicated ==
  pc = "ready" =>
    LET chain == orderedLocales
        primary == Ancestry(ChainInput(0))
    IN  /\ \A i, j \in 1..Len(chain) : i # j => chain[i] # chain[j]
        /\ Len(chain) >= Len(primary)
        /\ Prefix(chain, Len(primary)) = primary
        /\ \A k \in 1..Len(fallbackLocales(config)) :
             Range(Ancestry(ChainInput(k))) \subseteq Range(chain)
        /\ \A i \in 1..Len(chain) :
             \E k \in 0..Len(fallbackLocales(config)) :
               chain[i] \in Range(Ancestry(ChainInput(k)))
        /\ \A i, j \in 1..Len(chain) :
             i < j =>
               \/ Source(chain[i]) < Source(chain[j])
               \/ /\ Source(chain[i]) = Source(chain[j])
                  /\ Len(chain[i]) > Len(chain[j])

\* the chain of a regional primary tag with two fallbacks, one of which
\* restates an ancestor of the primary tag
C6_Witness ==
  /\ pc = "ready"
  /\ config.fallback.isArray
  /\ Len(config.fallback.tags) = 2
  /\ Len(Ancestry(ChainInput(0))) = 2
  /\ ChainInput(2) = Ancestry(ChainInput(0))[2]
  /\ Len(flat) > Len(orderedLocales)
  /\ Len(orderedLocales) = 4

\* C7: the expansion loop ends for every input string: after k iterations at
\* most Len(locale) - k characters of parentLocale are left, so the loop runs
\* at most Len(locale) times; and the empty string yields the empty expansion
C7_ExpansionTerminates ==
  pc = "loop" =>
    /\ Len(locales) + Len(parentLocale) <= Len(locale)
    /\ locale = <<>> => locales = <<>> /\ parentLocale = <<>>

(***************************************************************************)
(* What the design says of a catalog and a path: the path is walked through *)
(* the catalog's own keys, empty segments left out.                         *)
(***************************************************************************)
IsMessage(node) == node.tag = "string" \/ node.tag = "array"

NonEmptySegments(k) == SelectSeq(Split(k, "."), LAMBDA seg : seg # <<>>)

RECURSIVE Join(_, _)
Join(segs, sep) ==
  IF segs = <<>> THEN <<>>
  ELSE IF Len(segs) = 1 THEN segs[1]
  ELSE segs[1] \o <<sep>> \o Join(Tail(segs), sep)

\* where the walk of segs from its i-th segment ends: on a Message reached by
\* the last segment ("message"), on a Message reached earlier ("early"), on a
\* missing segment ("missing") or on a nested catalog ("catalog")
RECURSIVE Resolve(_, _, _)
Resolve(node, segs, i) ==
  IF i > Len(segs) THEN [status |-> "catalog", node |-> UndefinedNode]
  ELSE IF segs[i] \notin DOMAIN node.fields
       THEN [status |-> "missing", node |-> UndefinedNode]
  ELSE LET next == node.fields[segs[i]]
       IN  IF IsMessage(next)
           THEN IF i = Len(segs) THEN [status |-> "message", node |-> next]
                ELSE [status |-> "early", node |-> UndefinedNode]
           ELSE Resolve(next, segs, i + 1)

\* the locales of the chain whose catalog holds a Message at k
Hits(k) ==
  {i \in 1..Len(orderedLocales) :
     /\ orderedLocales[i] \in DOMAIN config.translations.fields
     /\ Resolve(config.translations.fields[orderedLocales[i]],
                NonEmptySegments(k), 1).status = "message"}

(***************************************************************************)
(* Properties of t (checked under Spec).                                   *)
(***************************************************************************)
\* C1: t returns the result of substitution on the Message of the first locale
\* of the chain whose catalog holds a Message at key, with that locale, so a
\* later locale is used only when no earlier one holds a Message at key
\* (stated for keys without empty segments)
C1_FirstHitIsReturned ==
  pc = "returned" /\ Hits(key) # {} /\ NonEmptySegments(key) = Split(key, ".") =>
    LET i == CHOOSE h \in Hits(key) : \A j \in Hits(key) : h <= j
        m == Resolve(config.translations.fields[orderedLocales[i]],
                     NonEmptySegments(key), 1).node
    IN  result = performSubstitution(m.s, m.opts, args, orderedLocales[i])

\* C2: when no locale of the chain holds a Message at key, t returns key
C2_MissingKeyIsReturned ==
  pc = "returned" /\ Hits(key) = {} => result = Returned(key)

(***************************************************************************)
(* Properties of getProperty (checked under LookupSpec).                   *)
(***************************************************************************)
\* C8: getProperty returns undefined for a path that ends on a nested catalog,
\* has a missing segment or reaches a Message before its last segment, and
\* returns a Message only when the last segment resolves to that Message
C8_LookupAbsentOrMessage ==
  pc = "looked" =>
    LET segs == Split(key, ".")
        whole == Resolve(object, NonEmptySegments(key), 1)
        front == Resolve(object,
                         SelectSeq(Prefix(segs, Len(segs) - 1), LAMBDA seg : seg # <<>>), 1)
    IN  /\ whole.status \in {"catalog", "missing", "early"} => property = UndefinedNode
        /\ front.status \in {"message", "early"} => property = UndefinedNode
        /\ property # UndefinedNode =>
             /\ whole.status = "message"
             /\ property = dt(whole.node.s, whole.node.opts)

\* C9: a path resolves as the same path with its empty segments removed
C9_EmptySegmentsSkipped ==
  pc = "looked" =>
    property = getProperty(object, Join(NonEmptySegments(key), "."))

(***************************************************************************)
(* Properties of performSubstitution (checked under SubstSpec).            *)
(***************************************************************************)
\* s.replaceAll(pattern, by) with by inserted as it is
RECURSIVE PlainReplaceAll(_, _, _)
PlainReplaceAll(s, pattern, by) ==
  LET i == IndexOf(s, pattern)
  IN  IF i = 0 THEN s
      ELSE Prefix(s, i - 1) \o by \o PlainReplaceAll(Suffix(s, i + Len(pattern)), pattern, by)

\* the call has one argument; its placeholder, as the engine locates it
OneArg == pc = "substituted" /\ Len(args) = 1
Located == Match(string, args[1].name)
Before == Prefix(string, Located.pos - 1)
After == Suffix(string, Located.pos + Located.len)

\* C3: an untyped placeholder {name} is replaced by String(value) as it is
C3_PlainValueVerbatim ==
  OneArg /\ Located.pos # 0 /\ ~Located.typed =>
    result = Returned(Before \o String(args[1].value) \o After)

\* the text C4 expects for the plural placeholder
ExpectedPluralText ==
  LET pluralOptions == paramOptions.plural[args[1].name]
      category == PluralSelect(locale, pluralOptions.type, args[1].value.n)
      text == IF category \in DOMAIN pluralOptions.forms
              THEN pluralOptions.forms[category]
              ELSE pluralOptions.forms["other"]
  IN  PlainReplaceAll(text, <<"{","?","}">>,
                      NumberFormat(locale, pluralOptions.formatter, args[1].value.n))

\* C4: a {name:plural} placeholder with a number and a declared rule set is
\* replaced by the text of the selected category, or of `other` when that
\* category is not declared, with every {?} replaced by the formatted number
C4_PluralTextSelected ==
  /\ OneArg
  /\ Located.pos # 0 /\ Located.typed /\ Located.type = <<"p","l","u","r","a","l">>
  /\ args[1].value.type = "number"
  /\ args[1].name \in DOMAIN paramOptions.plural
  => result = Returned(Before \o ExpectedPluralText \o After)

\* Intl.NumberFormat("en", {style: "currency", currency: "USD"}).format(n) for
\* a natural n < 1000, as test/index.test.ts expects it ("$12.00")
CurrencyUSD(n) == <<"$">> \o Digits(n) \o <<".","0","0">>

\* C5: a {name:number} placeholder is replaced by the number formatted with the
\* options declared for the parameter (here: English, USD currency), not by
\* the raw string form of the number
C5_NumberFormatted ==
  /\ OneArg
  /\ Located.pos # 0 /\ Located.typed /\ Located.type = <<"n","u","m","b","e","r">>
  /\ args[1].value.type = "number"
  /\ args[1].name \in DOMAIN paramOptions.number
  /\ paramOptions.number[args[1].name] = "currencyUSD"
  /\ Language(locale) = <<"e","n">>
  => result = Returned(Before \o CurrencyUSD(args[1].value.n) \o After)

\* the argument value holds none of the characters "$", "{", "}", so that its
\* insertion cannot itself bring a placeholder into the output
PlainValue(value) ==
  \A i \in 1..Len(value.s) : value.s[i] \notin {"$", "{", "}"}

\* C10: every occurrence of an argument's placeholder is replaced, so the
\* output holds no placeholder whose name is an argument name (stated for
\* argument values that hold no "$" and no brace)
C10_NoPlaceholderLeft ==
  /\ pc = "substituted"
  /\ result.kind = "string"
  /\ \A i \in 1..Len(args) : PlainValue(args[i].value)
  => \A i \in 1..Len(args) : Match(result.value, args[i].name).pos = 0

\* the placeholder types of a parameter that must receive a number or a date
CheckedTypes == {<<"p","l","u","r","a","l">>, <<"n","u","m","b","e","r">>, <<"d","a","t","e">>}

\* C11: a plural, number or date placeholder whose argument is a string makes
\* the call fail with an error that names the parameter; no string is returned
C11_TypeMismatchThrows ==
  /\ OneArg
  /\ Located.pos # 0 /\ Located.typed /\ Located.type \in CheckedTypes
  /\ args[1].value.type = "string"
  => /\ result.kind = "throw"
     /\ IndexOf(result.message, args[1].name) # 0

\* the Message of the first locale of the chain whose catalog holds one at key
FirstHit ==
  LET i == CHOOSE h \in Hits(key) : \A j \in Hits(key) : h <= j
  IN  Resolve(config.translations.fields[orderedLocales[i]],
              NonEmptySegments(key), 1).node

\* the call found a Message whose plural placeholder for its one numeric
\* argument has no rule set declared
MissingPluralOptions ==
  /\ pc = "returned" /\ Hits(key) # {} /\ NonEmptySegments(key) = Split(key, ".")
  /\ Len(args) = 1 /\ args[1].value.type = "number"
  /\ LET found == Match(FirstHit.s, args[1].name)
     IN  found.pos # 0 /\ found.typed /\ found.type = <<"p","l","u","r","a","l">>
  /\ NoPluralOptions(FirstHit.opts, args[1].name)

\* C12: a plural placeholder whose Message declares no rule set for the
\* parameter makes t fail with an error that names the parameter, whatever
\* the later locales of the chain hold
C12_MissingOptionsThrows ==
  MissingPluralOptions =>
    /\ result.kind = "throw"
    /\ IndexOf(result.message, args[1].name) # 0

\* the template s holds the placeholder {name} or {name:type}
HasPlaceholder(s, name) ==
  \E i \in 1..Len(s) :
    \/ OccursAt(s, <<"{">> \o name \o <<"}">>, i)
    \/ /\ OccursAt(s, <<"{">> \o name \o <<":">>, i)
       /\ \E k \in (i + Len(name) + 3)..Len(s) : s[k] = "}"

\* C13: arguments whose names are the name of no placeholder of the template
\* are ignored: the template is returned unchanged and no error is raised
C13_UnmatchedArgsIgnored ==
  /\ pc = "substituted"
  /\ \A i \in 1..Len(args) : ~HasPlaceholder(string, args[i].name)
  => result = Returned(string)

\* the first locale of the chain whose catalog holds a Message at key
FirstHitLocale ==
  orderedLocales[CHOOSE h \in Hits(key) : \A j \in Hits(key) : h <= j]

\* C14: a Message that is the empty template, or whose substitution gives the
\* empty string, is a hit: t returns "" and neither a later locale's text nor
\* the key
C14_EmptyResultIsAHit ==
  /\ pc = "returned" /\ Hits(key) # {} /\ NonEmptySegments(key) = Split(key, ".")
  /\ performSubstitution(FirstHit.s, FirstHit.opts, args, FirstHitLocale) = Returned(<<>>)
  => result = Returned(<<>>)

\* the Message at key of the catalog registered under the tag of config.locale
\* as the caller wrote it
PrimaryCatalogHit ==
  Resolve(config.translations.fields[config.locale], NonEmptySegments(key), 1)

\* C15: a catalog registered under the tag given as config.locale is
\* reachable whatever the case of the tag: a Message it holds at key is the
\* one t substitutes and returns (stated for a non-empty substitution result)
C15_SuppliedCatalogReachable ==
  /\ pc = "returned" /\ NonEmptySegments(key) = Split(key, ".")
  /\ config.locale \in DOMAIN config.translations.fields
  /\ PrimaryCatalogHit.status = "message"
  => LET expected == performSubstitution(PrimaryCatalogHit.node.s,
                                         PrimaryCatalogHit.node.opts,
                                         args, ToLowerCase(config.locale))
     IN  expected # Returned(<<>>) => result = expected

\* the entries of args enumerated in the opposite order
Reverse(entries) == [i \in 1..Len(entries) |-> entries[Len(entries) + 1 - i]]

\* the braces of s pair off without nesting: "{", "}", "{", "}", ...
PairedBraces(s) ==
  LET braces == SelectSeq(s, LAMBDA c : c \in {"{", "}"})
  IN  /\ Len(braces) % 2 = 0
      /\ \A j \in 1..Len(braces) : braces[j] = IF j % 2 = 1 THEN "{" ELSE "}"

Letters ==
  {"a","b","c","d","e","f","g","h","i","j","k","l","m",
   "n","o","p","q","r","s","t","u","v","w","x","y","z"}

\* the name is made of letters, so that it is matched as it is written
PlainName(name) == \A j \in 1..Len(name) : name[j] \in Letters

\* C16 as stated: text inserted for one argument is never taken as a
\* placeholder by a later argument, so the result of substitution does not
\* depend on the order in which the arguments are enumerated (stated for
\* templates whose braces pair off, names made of letters and values
\* without "$")
C16_OrderIndependent ==
  /\ pc = "substituted"
  /\ PairedBraces(string)
  /\ \A i \in 1..Len(args) :
       /\ PlainName(args[i].name)
       /\ \A j \in 1..Len(args[i].value.s) : args[i].value.s[j] # "$"
  => result = performSubstitution(string, paramOptions, Reverse(args), locale)

\* substitution with the first argument alone
FirstApplied == performSubstitution(string, paramOptions, <<args[1]>>, locale)

\* C16 as amended: the arguments are applied in turn, each to the output of
\* the one before it, so text inserted for one argument is scanned for the
\* placeholders of the later ones; an error ends the substitution
C16_AppliedInTurn ==
  pc = "substituted" /\ args # <<>> =>
    result = IF FirstApplied.kind = "string"
             THEN performSubstitution(FirstApplied.value, paramOptions, Tail(args), locale)
             ELSE FirstApplied

\* the text inserted for the first argument brought in a placeholder of the
\* second, which the template did not hold, and the second replaced it
C16_Witness ==
  /\ pc = "substituted" /\ Len(args) = 2
  /\ ~HasPlaceholder(string, args[2].name)
  /\ FirstApplied.kind = "string"
  /\ HasPlaceholder(FirstApplied.value, args[2].name)
  /\ result.kind = "string"
  /\ ~HasPlaceholder(result.value, args[2].name)

====
